---- MODULE Spec2Model ----
(***************************************************************************)
(* State-machine model of src/tracker.py: the TrackerManager registry      *)
(* (did2tracker), its two coalescing write queues (pgwrstatustask,         *)
(* pgwrmessagetask) and the coroutines that use them.                       *)
(*                                                                         *)
(* Scheduling is asyncio's: a coroutine runs without interleaving until it *)
(* reaches an await that suspends.  Each action below is one such run.     *)
(* on_lora_msg is cut at its await of the parser; the statements after it  *)
(* (lines 169-172) are two steps that hold the event loop, so that the     *)
(* state between addTracker and queue.append is visible to the properties  *)
(* but to no other coroutine.                                              *)
(***************************************************************************)
EXTENDS Integers, Sequences, FiniteSets, TLC

(* ---------------------------- bounds ---------------------------------- *)
\* number of devices of the model (addresses 00-..-01, 00-..-02, ...)
NDev == 1
\* number of on_lora_msg calls (each call slot is used once)
NCalls == 2
\* number of Tracker objects constructed over a run
MaxObj == 2
\* largest offset and largest count passed to getTrackers
MaxCnt == 2

\* LIMIT of the query of getTrackerMessages (line 183)
QueryLimit == 8192

\* Python's None, and an Optional value that is not None
None == <<>>
Some(x) == <<x>>
The(o) == o[1]

(* ------------------------- address codec ------------------------------ *)
\* A device address is the sequence of the 23 characters "XX-XX-XX-XX-XX-XX-XX-XX".
\* Its id is the 64-bit integer of the 8 bytes; it is kept as its 8 base-256
\* digits, most significant first (the integers of TLC have 32 bits).
HexDigits == <<"0","1","2","3","4","5","6","7","8","9","A","B","C","D","E","F">>

HexVal(c) == (CHOOSE i \in 1..16 : HexDigits[i] = c) - 1

\* rtlib.Eui.str2int
str2int(s) == [i \in 1..8 |-> HexVal(s[3*i - 2]) * 16 + HexVal(s[3*i - 1])]

\* rtlib.Eui.int2str
int2str(d) ==
    [k \in 1..23 |->
        IF k % 3 = 0 THEN "-"
        ELSE IF k % 3 = 1 THEN HexDigits[(d[(k + 2) \div 3] \div 16) + 1]
        ELSE HexDigits[(d[(k + 1) \div 3] % 16) + 1]]

\* the ids and addresses of the devices: 00-00-00-00-00-00-00-01, ...
Dids == {[i \in 1..8 |-> IF i = 8 THEN n ELSE 0] : n \in 1..NDev}
DevEuis == {int2str(d) : d \in Dids}
\* the ids a client may pass to addTracker: those, and the id of no device
ClientDids == Dids \cup {[i \in 1..8 |-> IF i = 8 THEN NDev + 1 ELSE 0]}
\* the ids of the addresses, decoded once
DidOf == [a \in DevEuis |-> str2int(a)]

Procs == 1..NCalls
MsgTypes == {"upinfo", "dninfo"}
ParseOutcomes == {"msg", "none", "error"}
Tasks == {"msg", "status"}

(* ------------------------------ state --------------------------------- *)
VARIABLES
    did2tracker,   \* self.did2tracker: did -> Tracker
    statusq,       \* self.pgwrstatustask.queue: did -> Tracker
    msgq,          \* self.pgwrmessagetask.queue: list of TrackerMessage
    task,          \* the two BgTasks: [loop, stop]
    statusBatch,   \* accumulator drained by the status task, being flushed
    statusFinal,   \* accumulator drained by the status task's stop
    msgBatch,      \* accumulator drained by the message task, being flushed
    msgFinal,      \* accumulator drained by the message task's stop
    statusTable,   \* rows of trackers_N_tracker_status (deveui column)
    msgTable,      \* rows of trackers_N_tracker_message, in insertion order
    calls,         \* the on_lora_msg calls: position and locals
    initpc,        \* position of __aioinit__
    shutpc,        \* position of shutdown
    nextObj,       \* Tracker objects constructed by getTracker and addTracker so far
    nextUpid,      \* messages produced by the parser so far
    ret,           \* how the last addTracker call of a client ended
    trackers,      \* self.trackers: the cached list of getTrackers
    gtm,           \* the getTrackerMessages call: its locals while it awaits storage
    out,           \* the last read operation (getTrackers, getTrackerMessages,
                   \* searchTracker), its arguments and what it returned
    hist           \* history of the run, read by the properties only

vars == <<did2tracker, statusq, msgq, task, statusBatch, statusFinal, msgBatch,
          msgFinal, statusTable, msgTable, calls, initpc, shutpc, nextObj,
          nextUpid, ret, trackers, gtm, out, hist>>

\* the state of the read operations
reads == <<trackers, gtm, out>>

\* class Tracker; obj is the identity of the Python object
Tracker(deveui, did, obj) == [deveui |-> deveui, did |-> did, obj |-> obj]

\* dict helpers
Keys(d) == DOMAIN d
Values(d) == {d[k] : k \in DOMAIN d}
Put(d, k, v) == [x \in (DOMAIN d) \cup {k} |-> IF x = k THEN v ELSE d[x]]
EmptyDict == <<>>
SeqSet(s) == {s[i] : i \in 1..Len(s)}

IdleCall == [pc |-> "idle", deveui |-> None, did |-> None, t |-> None, tm |-> None]
\* a call that has ended, and how: "ignored" (the return of line 152),
\* "discarded" (lines 161 and 168), "stored" (after line 172) or "raised" (an
\* exception left the call); its locals are gone
Ended == {"ignored", "discarded", "stored", "raised"}
EndCall(how) == [IdleCall EXCEPT !.pc = how]

\* no read operation has returned yet
NoRead == [op |-> "none", arg |-> None, res |-> None]

Init ==
    /\ did2tracker = EmptyDict
    /\ statusq = EmptyDict
    /\ msgq = <<>>
    /\ task = [k \in Tasks |-> [loop |-> "unstarted", stop |-> "none"]]
    /\ statusBatch = EmptyDict
    /\ statusFinal = EmptyDict
    /\ msgBatch = <<>>
    /\ msgFinal = <<>>
    /\ statusTable \in SUBSET Dids
    /\ msgTable = <<>>
    /\ calls = [p \in Procs |-> IdleCall]
    /\ initpc = "new"
    /\ shutpc = "none"
    /\ nextObj = 0
    /\ nextUpid = 0
    /\ ret = "none"
    /\ trackers = <<>>
    /\ gtm = None
    /\ out = NoRead
    /\ hist = [enq |-> [a \in DevEuis |-> 0],      \* identity writes getTracker(a) enqueued
               first |-> [a \in DevEuis |-> 0],    \* object getTracker(a) returned first
               cutObj |-> 0,       \* nextObj when shutdown was called
               cutUpid |-> 0,      \* nextUpid when shutdown was called
               idDropped |-> {},   \* objects of the identity batches that failed
               msgDropped |-> {}]  \* upids of the message batches that failed

\* a coroutine is between line 169 and line 172 of on_lora_msg: it holds the loop
Running == \E p \in Procs : calls[p].pc \in {"l169", "l171"}

ShutdownCalled == shutpc # "none"


(* ------------------- identity resolution (lines 131-148) -------------- *)
\* BgTask.notify(): wake the task without blocking.  The task also wakes on its
\* idle interval, so a wake is possible with or without the notification: the
\* notification is no state of the task.
notify(k) == task

\* addTracker without its assert: an existing identity is replaced
addTracker_Overwrites(deveui, did) ==
    LET tracker == Tracker(deveui, did, nextObj + 1)
    IN  [raised |-> FALSE, tracker |-> tracker,
         did2tracker |-> Put(did2tracker, did, tracker),
         statusq |-> Put(statusq, did, tracker)]

\* addTracker: the assert, then construct, enqueue and insert
addTracker(deveui, did) ==
    IF did \in Keys(did2tracker)
    THEN [raised |-> TRUE, tracker |-> Tracker(deveui, did, 0),
          did2tracker |-> did2tracker, statusq |-> statusq]
    ELSE LET tracker == Tracker(deveui, did, nextObj + 1)
         IN  [raised |-> FALSE, tracker |-> tracker,
              did2tracker |-> Put(did2tracker, did, tracker),
              statusq |-> Put(statusq, did, tracker)]

\* getTracker: return the known identity, else construct, enqueue and insert
getTracker(deveui) ==
    LET did == DidOf[deveui]
    IN  IF did \in Keys(did2tracker)
        THEN [created |-> FALSE, tracker |-> did2tracker[did],
              did2tracker |-> did2tracker, statusq |-> statusq]
        ELSE LET tracker == Tracker(deveui, did, nextObj + 1)
             IN  [created |-> TRUE, tracker |-> tracker,
                  did2tracker |-> Put(did2tracker, did, tracker),
                  statusq |-> Put(statusq, did, tracker)]

GetTracker(a) ==
    /\ ~Running
    /\ LET r == getTracker(a)
       IN  /\ r.created => nextObj < MaxObj
           /\ did2tracker' = r.did2tracker
           /\ statusq' = r.statusq
           /\ task' = IF r.created THEN notify("status") ELSE task
           /\ nextObj' = IF r.created THEN nextObj + 1 ELSE nextObj
           /\ hist' = [hist EXCEPT !.first[a] = IF @ = 0 THEN r.tracker.obj ELSE @,
                                    !.enq[a] = IF r.created THEN @ + 1 ELSE @]
    /\ UNCHANGED reads
    /\ UNCHANGED <<msgq, statusBatch, statusFinal, msgBatch, msgFinal, statusTable,
                   msgTable, calls, initpc, shutpc, nextUpid, ret>>

\* addTracker called by a client of the registry
AddTracker(a, d) ==
    /\ ~Running
    /\ LET r == addTracker(a, d)
       IN  /\ ~r.raised => nextObj < MaxObj
           /\ did2tracker' = r.did2tracker
           /\ statusq' = r.statusq
           /\ task' = IF r.raised THEN task ELSE notify("status")
           /\ nextObj' = IF r.raised THEN nextObj ELSE nextObj + 1
           /\ ret' = IF r.raised THEN "AssertionError" ELSE "returned"
    /\ UNCHANGED reads
    /\ UNCHANGED <<msgq, statusBatch, statusFinal, msgBatch, msgFinal, statusTable,
                   msgTable, calls, initpc, shutpc, nextUpid, hist>>

(* ------------------------ listing (lines 204-207) --------------------- *)
\* the orders in which a dict with the keys S can be iterated: did2tracker is
\* filled in the order of the rows of "select deveui from ..." (no ORDER BY)
\* and of the calls that register identities
Orders(S) ==
    {o \in [1..Cardinality(S) -> S] : {o[i] : i \in 1..Cardinality(S)} = S}

\* list(d.values()) with the dict iterated in the order o
ValueList(d, o) == [i \in 1..Len(o) |-> d[o[i]]]

\* s[off:off + cnt] for off >= 0 and cnt >= 0
Slice(s, off, cnt) ==
    SubSeq(s, off + 1, IF off + cnt < Len(s) THEN off + cnt ELSE Len(s))

\* getTrackers: the cached list is rebuilt when its length is not the size of
\* did2tracker; the result is a slice of it
getTrackers(off, cnt, o) ==
    LET cache == IF Len(trackers) # Cardinality(Keys(did2tracker))
                 THEN ValueList(did2tracker, o)
                 ELSE trackers
    IN  [trackers |-> cache, result |-> Slice(cache, off, cnt)]

GetTrackers(off, cnt) ==
    /\ ~Running
    /\ \E o \in Orders(Keys(did2tracker)) :
          LET r == getTrackers(off, cnt, o)
          IN  /\ trackers' = r.trackers
              /\ out' = [op |-> "getTrackers", arg |-> Some(<<off, cnt>>),
                         res |-> Some(r.result)]
    /\ UNCHANGED <<did2tracker, statusq, msgq, task, statusBatch, statusFinal,
                   msgBatch, msgFinal, statusTable, msgTable, calls, initpc, shutpc,
                   nextObj, nextUpid, ret, gtm, hist>>

(* ------------------- message query (lines 174-195) ------------------- *)
\* line 176: the requested ids that are keys of did2tracker
KnownDids_All(dids) == dids

KnownDids(dids) == {did \in dids : did \in Keys(did2tracker)}

\* WHERE deveui IN (dids) AND upid BETWEEN lo AND hi
Where(table, dids, lo, hi) ==
    SelectSeq(table, LAMBDA r : r.did \in dids /\ lo <= r.upid /\ r.upid <= hi)

IsOrdered(rows) == \A i \in 1..(Len(rows) - 1) : rows[i].upid <= rows[i + 1].upid

\* rows with row r inserted before the first row of a greater upid
RECURSIVE InsertRow(_, _)
InsertRow(rows, r) ==
    IF rows = <<>> THEN <<r>>
    ELSE IF r.upid < Head(rows).upid THEN <<r>> \o rows
    ELSE <<Head(rows)>> \o InsertRow(Tail(rows), r)

RECURSIVE SortRows(_)
SortRows(rows) ==
    IF rows = <<>> THEN <<>>
    ELSE InsertRow(SortRows(SubSeq(rows, 1, Len(rows) - 1)), rows[Len(rows)])

\* ORDER BY upid ASC (rows that are in order already are left as they are)
OrderByUpid(rows) == IF IsOrdered(rows) THEN rows ELSE SortRows(rows)

\* the query without its LIMIT clause
Limit_Unbounded(rows) == rows

\* LIMIT 8192
Limit(rows) == SubSeq(rows, 1, IF Len(rows) < QueryLimit THEN Len(rows) ELSE QueryLimit)

\* lines 185-195: the rows in the order of the cursor, grouped by their deveui
GroupByDid(rows) ==
    [did \in {rows[i].did : i \in 1..Len(rows)} |->
        SelectSeq(rows, LAMBDA r : r.did = did)]

\* the query of lines 179-183 on the message table
Query(dids, lo, hi) == Limit(OrderByUpid(Where(msgTable, dids, lo, hi)))

\* getTrackerMessages up to its first suspension: filter the ids; return {}
\* when none is known, else build the query and await the cursor (the call
\* has returned nothing yet).  lo and hi are rtlib.upid_from_datetime(fro)
\* and rtlib.upid_from_datetime(to).
GetTrackerMessagesCall(dids, lo, hi) ==
    /\ ~Running
    /\ gtm = None
    /\ LET known == KnownDids(dids)
           arg == [dids |-> dids, known |-> known, lo |-> lo, hi |-> hi]
       IN  IF known = {}
           THEN /\ out' = [op |-> "getTrackerMessages", arg |-> Some(arg),
                           res |-> Some(EmptyDict)]
                /\ UNCHANGED gtm
           ELSE /\ gtm' = Some(arg)
                /\ out' = NoRead
    /\ UNCHANGED <<did2tracker, statusq, msgq, task, statusBatch, statusFinal,
                   msgBatch, msgFinal, statusTable, msgTable, calls, initpc, shutpc,
                   nextObj, nextUpid, ret, trackers, hist>>

\* the storage answers: the rows are grouped and returned, or the failure of
\* the storage (dbok = FALSE) is raised to the caller
GetTrackerMessagesReturn(dbok) ==
    /\ ~Running
    /\ gtm # None
    /\ LET arg == The(gtm)
       IN  out' = IF dbok
                  THEN [op |-> "getTrackerMessages", arg |-> gtm,
                        res |-> Some(GroupByDid(Query(arg.known, arg.lo, arg.hi)))]
                  ELSE [op |-> "getTrackerMessages", arg |-> gtm, res |-> None]
    /\ gtm' = None
    /\ UNCHANGED <<did2tracker, statusq, msgq, task, statusBatch, statusFinal,
                   msgBatch, msgFinal, statusTable, msgTable, calls, initpc, shutpc,
                   nextObj, nextUpid, ret, trackers, hist>>

(* --------------------- identity search (lines 200-251) ---------------- *)
\* A string is the sequence of its characters.
LowerCase == <<"a", "b", "c", "d", "e", "f", "t", "n", "z">>
UpperCase == <<"A", "B", "C", "D", "E", "F", "T", "N", "Z">>

\* str.upper()
upper(s) ==
    [i \in 1..Len(s) |->
        IF \E j \in 1..Len(LowerCase) : LowerCase[j] = s[i]
        THEN UpperCase[CHOOSE j \in 1..Len(LowerCase) : LowerCase[j] = s[i]]
        ELSE s[i]]

\* s[::-1]
reverse(s) == [i \in 1..Len(s) |-> s[Len(s) + 1 - i]]

\* "-" in s
HasHyphen(s) == \E i \in 1..Len(s) : s[i] = "-"

\* s.replace("-", "")
RemoveHyphens(s) == SelectSeq(s, LAMBDA c : c # "-")

\* a.endswith(s)
endswith(a, s) ==
    /\ Len(s) <= Len(a)
    /\ SubSeq(a, Len(a) - Len(s) + 1, Len(a)) = s

\* re.sub(r'.*TN', 'TN', s): everything up to the last "TN" is replaced by "TN"
StripToTag(s) ==
    LET at == {i \in 1..(Len(s) - 1) : s[i] = "T" /\ s[i + 1] = "N"}
    IN  IF at = {} THEN s
        ELSE SubSeq(s, CHOOSE i \in at : \A j \in at : j <= i, Len(s))

\* tn2eui that keeps the two characters of the tag
tn2eui_KeepsTag(x) ==
    [k \in 1..23 |-> IF k % 3 = 0 THEN "-" ELSE x[k - (k \div 3)]]

\* tn2eui, for the 18 characters of a tagged address: the 16 characters after
\* the tag in pairs, joined by "-"
tn2eui(x) ==
    [k \in 1..23 |-> IF k % 3 = 0 THEN "-" ELSE x[2 + k - (k \div 3)]]

\* s2eui: the characters in pairs from the left (the last one single when the
\* length is odd), joined by "-"
s2eui(x) ==
    [k \in 1..(Len(x) + ((Len(x) + 1) \div 2) - (IF Len(x) = 0 THEN 0 ELSE 1)) |->
        IF k % 3 = 0 THEN "-" ELSE x[k - (k \div 3)]]

\* the argument is an address rtlib.Eui.str2int decodes: 8 pairs of hex
\* digits joined by "-"; on any other string str2int raises
IsEui(s) ==
    /\ Len(s) = 23
    /\ \A k \in 1..23 :
          IF k % 3 = 0 THEN s[k] = "-"
          ELSE \E j \in 1..16 : HexDigits[j] = s[k]

\* how a call of searchTracker ends: an exception, or the value returned
Raised == [raised |-> TRUE, tracker |-> None]
Returned(t) == [raised |-> FALSE, tracker |-> t]

\* did2tracker.get(did, None)
Get(did) == IF did \in Keys(did2tracker) THEN Some(did2tracker[did]) ELSE None

\* lookupTracker: decode (outside any try block), then look up
lookupTracker(deveui) ==
    IF ~IsEui(deveui) THEN Raised ELSE Returned(Get(str2int(deveui)))

\* lines 236-238 and 242-244: the identities whose address ends with s, in the
\* order o of the iteration over did2tracker
Matches(s, o) == SelectSeq(o, LAMBDA did : endswith(did2tracker[did].deveui, s))

\* lines 245-251: decode in a try block, look up; None on any exception
Fallback(s) == IF ~IsEui(s) THEN Returned(None) ELSE Returned(Get(str2int(s)))

\* the built-in default tag of line 232
DefaultTag ==
    <<"T", "N", "5", "8", "A", "0", "C", "B", "0", "0", "0", "0", "2", "0", "0", "0", "0", "0">>

\* searchTracker, with did2tracker iterated in the order o
searchTracker(query, o) ==
    LET s == StripToTag(upper(query))
    IN  IF Len(s) = 18 THEN lookupTracker(tn2eui(s))
        ELSE IF Len(s) = 0 THEN lookupTracker(tn2eui(DefaultTag))
        ELSE IF (Len(s) < 18 /\ ~HasHyphen(s)) \/ (Len(s) < 23 /\ HasHyphen(s))
        THEN LET s1 == reverse(s2eui(reverse(RemoveHyphens(s))))
                 m == Matches(s1, o)
             IN  IF m # <<>> THEN Returned(Some(did2tracker[m[1]])) ELSE Fallback(s1)
        ELSE Fallback(s)

\* what searchTracker can return in this state, over the orders in which
\* did2tracker can be iterated
SearchResults(query) == {searchTracker(query, o) : o \in Orders(Keys(did2tracker))}

SearchTracker(query) ==
    /\ ~Running
    /\ \E r \in SearchResults(query) :
          out' = [op |-> "searchTracker", arg |-> Some(query), res |-> Some(r)]
    /\ UNCHANGED <<did2tracker, statusq, msgq, task, statusBatch, statusFinal,
                   msgBatch, msgFinal, statusTable, msgTable, calls, initpc, shutpc,
                   nextObj, nextUpid, ret, trackers, gtm, hist>>

(* ----------------------- ingestion (lines 150-172) -------------------- *)
\* lines 151-158: classify, decode, look up, call the parser and suspend on it
OnLoraMsgCall(p, msgtype, a) ==
    /\ ~Running
    /\ calls[p].pc = "idle"
    /\ \A q \in Procs : q < p => calls[q].pc # "idle"
    /\ calls' = [calls EXCEPT ![p] =
            IF msgtype # "upinfo"
            THEN EndCall("ignored")
            ELSE LET did == DidOf[a]
                 IN  [pc |-> "parse", deveui |-> a, did |-> did,
                      t |-> IF did \in Keys(did2tracker) THEN Some(did2tracker[did]) ELSE None,
                      tm |-> None]]
    /\ UNCHANGED reads
    /\ UNCHANGED <<did2tracker, statusq, msgq, task, statusBatch, statusFinal,
                   msgBatch, msgFinal, statusTable, msgTable, initpc, shutpc,
                   nextObj, nextUpid, ret, hist>>

\* ParseReturn with an identity created on mere receipt: a parser failure for
\* an unknown device registers the device
ParseReturn_SeedsIdentity(p, outcome) ==
    /\ ~Running
    /\ calls[p].pc = "parse"
    /\ nextObj < MaxObj
    /\ LET r == addTracker(calls[p].deveui, calls[p].did)
       IN  /\ did2tracker' = r.did2tracker
           /\ statusq' = r.statusq
           /\ nextObj' = IF r.raised THEN nextObj ELSE nextObj + 1
    /\ IF outcome = "msg"
       THEN /\ calls' = [calls EXCEPT ![p].pc = "l171",
                                      ![p].tm = Some([did |-> calls[p].did, upid |-> nextUpid + 1])]
            /\ nextUpid' = nextUpid + 1
       ELSE /\ calls' = [calls EXCEPT ![p] = EndCall("discarded")]
            /\ UNCHANGED nextUpid
    /\ UNCHANGED reads
    /\ UNCHANGED <<msgq, task, statusBatch, statusFinal, msgBatch, msgFinal,
                   statusTable, msgTable, initpc, shutpc, ret, hist>>

\* lines 158-168: the parser returns a message, returns None or raises
ParseReturn(p, outcome) ==
    /\ ~Running
    /\ calls[p].pc = "parse"
    /\ IF outcome = "msg"
       THEN /\ calls' = [calls EXCEPT ![p].pc = "l169",
                                      ![p].tm = Some([did |-> calls[p].did, upid |-> nextUpid + 1])]
            /\ nextUpid' = nextUpid + 1
       ELSE /\ calls' = [calls EXCEPT ![p] = EndCall("discarded")]
            /\ UNCHANGED nextUpid
    /\ UNCHANGED reads
    /\ UNCHANGED <<did2tracker, statusq, msgq, task, statusBatch, statusFinal,
                   msgBatch, msgFinal, statusTable, msgTable, initpc, shutpc,
                   nextObj, ret, hist>>

\* lines 169-170: if t is None: t = await self.addTracker(deveui, did)
OnLoraMsgAdd(p) ==
    /\ calls[p].pc = "l169"
    /\ IF calls[p].t # None
       THEN /\ calls' = [calls EXCEPT ![p].pc = "l171"]
            /\ UNCHANGED <<did2tracker, statusq, task, nextObj>>
       ELSE LET r == addTracker(calls[p].deveui, calls[p].did)
            IN  /\ ~r.raised => nextObj < MaxObj
                /\ did2tracker' = r.did2tracker
                /\ statusq' = r.statusq
                /\ task' = IF r.raised THEN task ELSE notify("status")
                /\ nextObj' = IF r.raised THEN nextObj ELSE nextObj + 1
                /\ calls' = [calls EXCEPT ![p] =
                        IF r.raised THEN EndCall("raised")
                        ELSE [@ EXCEPT !.pc = "l171", !.t = Some(r.tracker)]]
    /\ UNCHANGED reads
    /\ UNCHANGED <<msgq, statusBatch, statusFinal, msgBatch, msgFinal, statusTable,
                   msgTable, initpc, shutpc, nextUpid, ret, hist>>

\* lines 171-172: append the message to the message-write queue and notify
OnLoraMsgAppend(p) ==
    /\ calls[p].pc = "l171"
    /\ msgq' = Append(msgq, The(calls[p].tm))
    /\ task' = notify("msg")
    /\ calls' = [calls EXCEPT ![p] = EndCall("stored")]
    /\ UNCHANGED reads
    /\ UNCHANGED <<did2tracker, statusq, statusBatch, statusFinal, msgBatch, msgFinal,
                   statusTable, msgTable, initpc, shutpc, nextObj, nextUpid, ret, hist>>


(* ------------------------ startup (lines 102-129) --------------------- *)
\* loadTracker: one Tracker per row of the status table; the objects it
\* constructs are numbered n - 1, n - 2, ... (below zero, apart from the
\* objects of getTracker and addTracker)
RECURSIVE loadTracker(_, _)
loadTracker(rows, n) ==
    IF rows = {} THEN EmptyDict
    ELSE LET did == CHOOSE d \in rows : TRUE
         IN  Put(loadTracker(rows \ {did}, n - 1), did, Tracker(int2str(did), did, n - 1))

\* BgTask.start()
start(k) == [loop |-> "waiting", stop |-> task[k].stop]

\* __aioinit__ up to its first suspension (the cursor and the table creation)
AioInitBegin ==
    /\ ~Running
    /\ initpc = "new"
    /\ initpc' = "tables"
    /\ UNCHANGED reads
    /\ UNCHANGED <<did2tracker, statusq, msgq, task, statusBatch, statusFinal,
                   msgBatch, msgFinal, statusTable, msgTable, calls, shutpc,
                   nextObj, nextUpid, ret, hist>>

\* the rows arrive: did2tracker is replaced by the loaded map, the tasks start
AioInitLoad ==
    /\ ~Running
    /\ initpc = "tables"
    /\ did2tracker' = loadTracker(statusTable, 0)
    /\ task' = [k \in Tasks |-> start(k)]
    /\ initpc' = "ready"
    /\ UNCHANGED reads
    /\ UNCHANGED <<statusq, msgq, statusBatch, statusFinal, msgBatch, msgFinal,
                   statusTable, msgTable, calls, shutpc, nextObj, nextUpid, ret, hist>>

(* -------------------- flush actions (lines 253-278) ------------------- *)
\* pg_message_store_action putting a failed batch back on the accumulator
pg_message_store_action_Requeues(queue, dbok) ==
    IF Len(queue) = 0 \/ ~dbok
    THEN [ok |-> FALSE, table |-> msgTable, queue |-> queue \o msgq]
    ELSE [ok |-> TRUE, table |-> msgTable \o queue, queue |-> msgq]

\* pg_message_store_action: one INSERT of the whole batch; a statement without
\* rows or a storage failure (dbok = FALSE) raises.  table and queue are the
\* message table and the task's accumulator after the call.
pg_message_store_action(queue, dbok) ==
    IF Len(queue) = 0 \/ ~dbok
    THEN [ok |-> FALSE, table |-> msgTable, queue |-> msgq]
    ELSE [ok |-> TRUE, table |-> msgTable \o queue, queue |-> msgq]

\* lines 270-271: an id of the batch is no key of did2tracker
KeyError(queue) == ~(Keys(queue) \subseteq Keys(did2tracker))

\* pg_status_store_action: self.did2tracker[did] for every key of the batch
\* (KeyError when missing), then one upsert of the ids; a statement without
\* rows or a storage failure (dbok = FALSE) raises.
pg_status_store_action(queue, dbok) ==
    IF Keys(queue) = {} \/ ~dbok \/ KeyError(queue)
    THEN [ok |-> FALSE, table |-> statusTable, queue |-> statusq]
    ELSE [ok |-> TRUE,
          table |-> statusTable \cup {did2tracker[did].did : did \in Keys(queue)},
          queue |-> statusq]

Objs(queue) == {t.obj : t \in Values(queue)}
Upids(queue) == {m.upid : m \in SeqSet(queue)}

\* history of a batch of identities whose flush has ended
IdFlushHist(queue, ok) ==
    [hist EXCEPT !.idDropped = IF ok THEN @ ELSE @ \cup Objs(queue)]

\* history of a batch of messages whose flush has ended
MsgFlushHist(queue, ok) ==
    [hist EXCEPT !.msgDropped = IF ok THEN @ ELSE @ \cup Upids(queue)]

(* --------------- coalescing write queue (rtlib.BgTask) ---------------- *)
\* the task wakes (notify or idle interval), swaps in a fresh accumulator and
\* hands the drained one to its flush action.  The flush action runs up to its
\* first await in the same step: pg_status_store_action looks every id up
\* (lines 268-272) and on a KeyError the batch is logged and dropped at once.
Wake(k) ==
    /\ ~Running
    /\ task[k].loop = "waiting"
    /\ task[k].stop = "none"
    /\ IF k = "msg"
       THEN /\ msgBatch' = msgq
            /\ msgq' = <<>>
            /\ task' = [task EXCEPT ![k].loop = "flushing"]
            /\ UNCHANGED <<statusBatch, statusq, hist>>
       ELSE /\ statusq' = EmptyDict
            /\ IF KeyError(statusq)
               THEN /\ hist' = IdFlushHist(statusq, FALSE)
                    /\ UNCHANGED <<statusBatch, task>>
               ELSE /\ statusBatch' = statusq
                    /\ task' = [task EXCEPT ![k].loop = "flushing"]
                    /\ UNCHANGED hist
            /\ UNCHANGED <<msgBatch, msgq>>
    /\ UNCHANGED reads
    /\ UNCHANGED <<did2tracker, statusFinal, msgFinal, statusTable, msgTable, calls,
                   initpc, shutpc, nextObj, nextUpid, ret>>

\* the flush action of the task's loop ends; a failure is logged, the batch dropped
FlushDone(k, dbok) ==
    /\ ~Running
    /\ task[k].loop = "flushing"
    /\ task' = [task EXCEPT ![k].loop = IF task[k].stop = "none" THEN "waiting" ELSE "stopped"]
    /\ IF k = "msg"
       THEN LET r == pg_message_store_action(msgBatch, dbok)
            IN  /\ msgTable' = r.table
                /\ msgq' = r.queue
                /\ msgBatch' = <<>>
                /\ hist' = MsgFlushHist(msgBatch, r.ok)
                /\ UNCHANGED <<statusTable, statusq, statusBatch>>
       ELSE LET r == pg_status_store_action(statusBatch, dbok)
            IN  /\ statusTable' = r.table
                /\ statusq' = r.queue
                /\ statusBatch' = EmptyDict
                /\ hist' = IdFlushHist(statusBatch, r.ok)
                /\ UNCHANGED <<msgTable, msgq, msgBatch>>
    /\ UNCHANGED reads
    /\ UNCHANGED <<did2tracker, statusFinal, msgFinal, calls, initpc, shutpc,
                   nextObj, nextUpid, ret>>

\* BgTask.stop(), after the flush in flight has ended or the grace period has
\* passed: drain what is pending and hand it to the flush action; on a KeyError
\* of pg_status_store_action the batch is dropped and stop() returns
StopFinal(k) ==
    /\ ~Running
    /\ task[k].stop = "called"
    /\ IF k = "msg"
       THEN /\ msgFinal' = msgq
            /\ msgq' = <<>>
            /\ task' = [task EXCEPT ![k].stop = "final",
                                    ![k].loop = IF @ = "waiting" THEN "stopped" ELSE @]
            /\ UNCHANGED <<statusFinal, statusq, hist>>
       ELSE /\ statusq' = EmptyDict
            /\ IF KeyError(statusq)
               THEN /\ hist' = IdFlushHist(statusq, FALSE)
                    /\ task' = [task EXCEPT ![k].stop = "done",
                                            ![k].loop = IF @ = "waiting" THEN "stopped" ELSE @]
                    /\ UNCHANGED statusFinal
               ELSE /\ statusFinal' = statusq
                    /\ task' = [task EXCEPT ![k].stop = "final",
                                            ![k].loop = IF @ = "waiting" THEN "stopped" ELSE @]
                    /\ UNCHANGED hist
            /\ UNCHANGED <<msgFinal, msgq>>
    /\ UNCHANGED reads
    /\ UNCHANGED <<did2tracker, statusBatch, msgBatch, statusTable, msgTable, calls,
                   initpc, shutpc, nextObj, nextUpid, ret>>

\* the final flush ends and stop() returns
StopFinalDone(k, dbok) ==
    /\ ~Running
    /\ task[k].stop = "final"
    /\ task' = [task EXCEPT ![k].stop = "done"]
    /\ IF k = "msg"
       THEN LET r == pg_message_store_action(msgFinal, dbok)
            IN  /\ msgTable' = r.table
                /\ msgq' = r.queue
                /\ msgFinal' = <<>>
                /\ hist' = MsgFlushHist(msgFinal, r.ok)
                /\ UNCHANGED <<statusTable, statusq, statusFinal>>
       ELSE LET r == pg_status_store_action(statusFinal, dbok)
            IN  /\ statusTable' = r.table
                /\ statusq' = r.queue
                /\ statusFinal' = EmptyDict
                /\ hist' = IdFlushHist(statusFinal, r.ok)
                /\ UNCHANGED <<msgTable, msgq, msgFinal>>
    /\ UNCHANGED reads
    /\ UNCHANGED <<did2tracker, statusBatch, msgBatch, calls, initpc, shutpc,
                   nextObj, nextUpid, ret>>

(* ------------------------ shutdown (lines 109-111) -------------------- *)
\* BgTask.stop() is called
stop(k) == [task EXCEPT ![k].stop = "called"]

\* line 110: await self.pgwrmessagetask.stop()
ShutdownStopMessages ==
    /\ ~Running
    /\ initpc = "ready"
    /\ shutpc = "none"
    /\ task' = stop("msg")
    /\ shutpc' = "stopmsg"
    /\ hist' = [hist EXCEPT !.cutObj = nextObj, !.cutUpid = nextUpid]
    /\ UNCHANGED reads
    /\ UNCHANGED <<did2tracker, statusq, msgq, statusBatch, statusFinal, msgBatch,
                   msgFinal, statusTable, msgTable, calls, initpc, nextObj,
                   nextUpid, ret>>

\* shutdown returning once the message task has stopped
ShutdownStopStatus_Skips ==
    /\ ~Running
    /\ shutpc = "stopmsg"
    /\ task["msg"].stop = "done"
    /\ shutpc' = "done"
    /\ UNCHANGED reads
    /\ UNCHANGED <<did2tracker, statusq, msgq, task, statusBatch, statusFinal,
                   msgBatch, msgFinal, statusTable, msgTable, calls, initpc,
                   nextObj, nextUpid, ret, hist>>

\* line 111: the message task has stopped; await self.pgwrstatustask.stop()
ShutdownStopStatus ==
    /\ ~Running
    /\ shutpc = "stopmsg"
    /\ task["msg"].stop = "done"
    /\ task' = stop("status")
    /\ shutpc' = "stopstatus"
    /\ UNCHANGED reads
    /\ UNCHANGED <<did2tracker, statusq, msgq, statusBatch, statusFinal, msgBatch,
                   msgFinal, statusTable, msgTable, calls, initpc, nextObj,
                   nextUpid, ret, hist>>

\* the status task has stopped; shutdown returns
ShutdownReturn ==
    /\ ~Running
    /\ shutpc = "stopstatus"
    /\ task["status"].stop = "done"
    /\ shutpc' = "done"
    /\ UNCHANGED reads
    /\ UNCHANGED <<did2tracker, statusq, msgq, task, statusBatch, statusFinal,
                   msgBatch, msgFinal, statusTable, msgTable, calls, initpc,
                   nextObj, nextUpid, ret, hist>>

(* --------------------------- specification ---------------------------- *)
\* startup
Startup ==
    \/ AioInitBegin
    \/ AioInitLoad

\* the two write tasks
Flush ==
    \/ \E k \in Tasks : Wake(k)
    \/ \E k \in Tasks, dbok \in BOOLEAN : FlushDone(k, dbok)

\* shutdown
Shutdown ==
    \/ \E k \in Tasks : StopFinal(k)
    \/ \E k \in Tasks, dbok \in BOOLEAN : StopFinalDone(k, dbok)
    \/ ShutdownStopMessages
    \/ ShutdownStopStatus
    \/ ShutdownReturn

\* the ingestion calls
Ingest ==
    \/ \E p \in Procs, m \in MsgTypes, a \in DevEuis : OnLoraMsgCall(p, m, a)
    \/ \E p \in Procs, o \in ParseOutcomes : ParseReturn(p, o)
    \/ \E p \in Procs : OnLoraMsgAdd(p)
    \/ \E p \in Procs : OnLoraMsgAppend(p)

\* The registry under concurrent ingestion and getTracker calls, from
\* construction to shutdown.
Next ==
    \/ \E a \in DevEuis : GetTracker(a)
    \/ Ingest
    \/ Startup
    \/ Flush
    \/ Shutdown

Spec == Init /\ [][Next]_vars

\* The same from the state in which __aioinit__ has returned, no call having
\* been made before: the map is the loaded one and the tasks wait.
InitRunning ==
    /\ statusTable \in SUBSET Dids
    /\ did2tracker = loadTracker(statusTable, 0)
    /\ statusq = EmptyDict
    /\ msgq = <<>>
    /\ task = [k \in Tasks |-> [loop |-> "waiting", stop |-> "none"]]
    /\ statusBatch = EmptyDict
    /\ statusFinal = EmptyDict
    /\ msgBatch = <<>>
    /\ msgFinal = <<>>
    /\ msgTable = <<>>
    /\ calls = [p \in Procs |-> IdleCall]
    /\ initpc = "ready"
    /\ shutpc = "none"
    /\ nextObj = 0
    /\ nextUpid = 0
    /\ ret = "none"
    /\ trackers = <<>>
    /\ gtm = None
    /\ out = NoRead
    /\ hist = [enq |-> [a \in DevEuis |-> 0], first |-> [a \in DevEuis |-> 0],
               cutObj |-> 0, cutUpid |-> 0, idDropped |-> {}, msgDropped |-> {}]

NextRunning ==
    \/ \E a \in DevEuis : GetTracker(a)
    \/ Ingest
    \/ Flush
    \/ Shutdown

SpecRunning == InitRunning /\ [][NextRunning]_vars

\* The registry under its clients, up to shutdown: addTracker is called with
\* any address and any id, next to getTracker and one ingestion call at a time.
NextClient ==
    \/ \E a \in DevEuis : GetTracker(a)
    \/ \E a \in DevEuis, d \in ClientDids : AddTracker(a, d)
    \/ /\ \A q \in Procs : calls[q].pc \in {"idle"} \cup Ended
       /\ \E p \in Procs, m \in MsgTypes, a \in DevEuis : OnLoraMsgCall(p, m, a)
    \/ \E p \in Procs, o \in ParseOutcomes : ParseReturn(p, o)
    \/ \E p \in Procs : OnLoraMsgAdd(p)
    \/ \E p \in Procs : OnLoraMsgAppend(p)
    \/ Startup
    \/ Flush

SpecClient == Init /\ [][NextClient]_vars

\* The registry and its cached list under the operations that change
\* did2tracker (the write tasks read it only): getTracker, addTracker, one
\* ingestion call at a time and __aioinit__, with getTrackers called in between.
NextList ==
    \/ \E a \in DevEuis : GetTracker(a)
    \/ \E a \in DevEuis, d \in ClientDids : AddTracker(a, d)
    \/ /\ \A q \in Procs : calls[q].pc \in {"idle"} \cup Ended
       /\ \E p \in Procs, m \in MsgTypes, a \in DevEuis : OnLoraMsgCall(p, m, a)
    \/ \E p \in Procs, o \in ParseOutcomes : ParseReturn(p, o)
    \/ \E p \in Procs : OnLoraMsgAdd(p)
    \/ \E p \in Procs : OnLoraMsgAppend(p)
    \/ Startup
    \/ \E off \in 0..MaxCnt, cnt \in 0..MaxCnt : GetTrackers(off, cnt)

SpecList == Init /\ [][NextList]_vars

\* A message table of n rows that earlier runs have stored, of the ids of
\* ClientDids in turn, in the order of their upids 1..n
StoredRows(n) ==
    [i \in 1..n |->
        [did |-> [k \in 1..8 |-> IF k = 8 THEN 1 + (i % (NDev + 1)) ELSE 0], upid |-> i]]

\* the same rows, last row first
Reversed(rows) == [i \in 1..Len(rows) |-> rows[Len(rows) + 1 - i]]

\* message tables of a few rows: none, rows stored in the order of their
\* upids, rows stored against it
MsgTables == {StoredRows(0), StoredRows(3), Reversed(StoredRows(4))}

\* message tables of as many rows as one query returns, and of more
BigMsgTables == {StoredRows(QueryLimit), StoredRows(QueryLimit + 1)}

\* the windows of the queries, as the upids of fro and to
Windows == {<<0, 2 * QueryLimit>>, <<2, 3>>, <<2, QueryLimit + 1>>, <<3, 2>>}

\* A registry constructed on a storage that earlier runs have filled: the
\* identity table holds any ids, the message table any of MsgTables.
InitQuery ==
    /\ did2tracker = EmptyDict
    /\ statusq = EmptyDict
    /\ msgq = <<>>
    /\ task = [k \in Tasks |-> [loop |-> "unstarted", stop |-> "none"]]
    /\ statusBatch = EmptyDict
    /\ statusFinal = EmptyDict
    /\ msgBatch = <<>>
    /\ msgFinal = <<>>
    /\ statusTable \in SUBSET ClientDids
    /\ msgTable \in MsgTables
    /\ calls = [p \in Procs |-> IdleCall]
    /\ initpc = "new"
    /\ shutpc = "none"
    /\ nextObj = 0
    /\ nextUpid = 0
    /\ ret = "none"
    /\ trackers = <<>>
    /\ gtm = None
    /\ out = NoRead
    /\ hist = [enq |-> [a \in DevEuis |-> 0], first |-> [a \in DevEuis |-> 0],
               cutObj |-> 0, cutUpid |-> 0, idDropped |-> {}, msgDropped |-> {}]

\* getTrackerMessages called on it, while getTracker registers devices and
\* __aioinit__ loads the identity table
NextQuery ==
    \/ \E a \in DevEuis : GetTracker(a)
    \/ Startup
    \/ \E dids \in SUBSET ClientDids, w \in Windows :
          GetTrackerMessagesCall(dids, w[1], w[2])
    \/ \E dbok \in BOOLEAN : GetTrackerMessagesReturn(dbok)

SpecQuery == InitQuery /\ [][NextQuery]_vars

\* An initialised registry on a storage with a large message table:
\* __aioinit__ has returned, the identities are the loaded ones.
InitBigQuery ==
    /\ statusTable \in SUBSET ClientDids
    /\ msgTable \in BigMsgTables
    /\ did2tracker = loadTracker(statusTable, 0)
    /\ statusq = EmptyDict
    /\ msgq = <<>>
    /\ task = [k \in Tasks |-> [loop |-> "waiting", stop |-> "none"]]
    /\ statusBatch = EmptyDict
    /\ statusFinal = EmptyDict
    /\ msgBatch = <<>>
    /\ msgFinal = <<>>
    /\ calls = [p \in Procs |-> IdleCall]
    /\ initpc = "ready"
    /\ shutpc = "none"
    /\ nextObj = 0
    /\ nextUpid = 0
    /\ ret = "none"
    /\ trackers = <<>>
    /\ gtm = None
    /\ out = NoRead
    /\ hist = [enq |-> [a \in DevEuis |-> 0], first |-> [a \in DevEuis |-> 0],
               cutObj |-> 0, cutUpid |-> 0, idDropped |-> {}, msgDropped |-> {}]

\* getTrackerMessages called on it, one call after the other
NextBigQuery ==
    \/ \E dids \in SUBSET ClientDids, w \in Windows :
          GetTrackerMessagesCall(dids, w[1], w[2])
    \/ \E dbok \in BOOLEAN : GetTrackerMessagesReturn(dbok)

SpecBigQuery == InitBigQuery /\ [][NextBigQuery]_vars

\* The 16 hex digits of the addresses of the search: 58-A0-CB-00-00-20-07-B9,
\* an address with the same last six digits, and the address of the default tag
SearchHex ==
    {<<"5", "8", "A", "0", "C", "B", "0", "0", "0", "0", "2", "0", "0", "7", "B", "9">>,
     <<"5", "8", "A", "0", "C", "B", "0", "0", "0", "1", "2", "0", "0", "7", "B", "9">>,
     <<"5", "8", "A", "0", "C", "B", "0", "0", "0", "0", "2", "0", "0", "0", "0", "0">>}

\* an address of 16 hex digits in its forms: hyphenated, tagged, a suffix
Hyphenated(h) == s2eui(h)
Tagged(h) == <<"T", "N">> \o h
Suffix(h, n) == SubSeq(h, 17 - n, 16)
SuffixLens == {1, 2, 3, 6, 15, 16}

SearchEuis == {Hyphenated(h) : h \in SearchHex}
SearchDids == {str2int(a) : a \in SearchEuis}

\* the queries: the forms of the addresses, in upper and in lower case, with
\* text before the tag, hyphenated suffixes, the empty query, and strings that
\* are no address
Queries ==
    {Hyphenated(h) : h \in SearchHex}
        \cup {Tagged(h) : h \in SearchHex}
        \cup {<<"t", "n">> \o h : h \in SearchHex}
        \cup {<<"Z", "T", "N", "-">> \o Tagged(h) : h \in SearchHex}
        \cup {Suffix(h, n) : h \in SearchHex, n \in SuffixLens}
        \cup {Hyphenated(Suffix(h, 4)) : h \in SearchHex}
        \cup {<<"b", "9">>, <<>>, <<"Z">>, <<"Z", "-">>, <<"-">>,
              <<"T", "N", "5", "8", "A", "0", "C", "B", "0", "0", "0", "0", "2", "0", "0", "7", "B", "Z">>,
              <<"5", "8", "-", "A", "0", "-", "C", "B", "-", "0", "0", "-", "0", "0", "-", "2", "0", "-">>,
              <<"5", "8", "A", "0", "C", "B", "0", "0", "0", "0", "2", "0", "0", "7", "B", "9", "0", "0", "0">>,
              <<"5", "8", "-", "A", "0", "-", "C", "B", "-", "0", "0", "-", "0", "0", "-", "2", "0", "-", "0", "7", "-", "B", "Z">>}

\* An initialised registry that has loaded identities of the search addresses.
InitSearch ==
    /\ statusTable \in SUBSET SearchDids
    /\ did2tracker = loadTracker(statusTable, 0)
    /\ statusq = EmptyDict
    /\ msgq = <<>>
    /\ task = [k \in Tasks |-> [loop |-> "waiting", stop |-> "none"]]
    /\ statusBatch = EmptyDict
    /\ statusFinal = EmptyDict
    /\ msgBatch = <<>>
    /\ msgFinal = <<>>
    /\ msgTable = <<>>
    /\ calls = [p \in Procs |-> IdleCall]
    /\ initpc = "ready"
    /\ shutpc = "none"
    /\ nextObj = 0
    /\ nextUpid = 0
    /\ ret = "none"
    /\ trackers = <<>>
    /\ gtm = None
    /\ out = NoRead
    /\ hist = [enq |-> [a \in DevEuis |-> 0], first |-> [a \in DevEuis |-> 0],
               cutObj |-> 0, cutUpid |-> 0, idDropped |-> {}, msgDropped |-> {}]

\* searchTracker called on it, while further identities are registered
NextSearch ==
    \/ \E a \in SearchEuis : AddTracker(a, str2int(a))
    \/ \E q \in Queries : SearchTracker(q)

SpecSearch == InitSearch /\ [][NextSearch]_vars

\* The registry under its clients, up to shutdown, on a storage that does not
\* fail: every statement of a flush that reaches the storage succeeds unless it
\* has no rows.  The identity-write task is scheduled fairly: it wakes when it
\* waits (notify or idle interval) and a flush in flight ends; a coroutine
\* that holds the event loop (lines 169-172) runs on.
NextDurable ==
    \/ \E a \in DevEuis : GetTracker(a)
    \/ \E a \in DevEuis, d \in ClientDids : AddTracker(a, d)
    \/ /\ \A q \in Procs : calls[q].pc \in {"idle"} \cup Ended
       /\ \E p \in Procs, m \in MsgTypes, a \in DevEuis : OnLoraMsgCall(p, m, a)
    \/ \E p \in Procs, o \in ParseOutcomes : ParseReturn(p, o)
    \/ \E p \in Procs : OnLoraMsgAdd(p)
    \/ \E p \in Procs : OnLoraMsgAppend(p)
    \/ Startup
    \/ \E k \in Tasks : Wake(k)
    \/ \E k \in Tasks : FlushDone(k, TRUE)

SpecDurable ==
    /\ Init
    /\ [][NextDurable]_vars
    /\ WF_vars(Wake("status"))
    /\ WF_vars(FlushDone("status", TRUE))
    /\ WF_vars(\E p \in Procs : OnLoraMsgAdd(p))
    /\ WF_vars(\E p \in Procs : OnLoraMsgAppend(p))


(* ------------------------------ claims -------------------------------- *)
\* message u is held by an on_lora_msg call that has not yet appended it
InCall(u) == \E p \in Procs : calls[p].tm # None /\ The(calls[p].tm).upid = u

\* C1: an on_lora_msg call that found no identity for the device (t is None) and
\* for which the parser returned a message inserts exactly one identity for that
\* id into did2tracker and the identity-write queue (line 170) and then appends
\* exactly one message to the message-write queue (line 171).
C1_UnknownDeviceOneIdentityThenOneMessage ==
    [][\A p \in Procs :
        /\ (calls[p].pc = "l169" /\ calls[p].t = None) =>
              /\ calls'[p].pc = "l171"
              /\ calls[p].did \notin Keys(did2tracker)
              /\ Keys(did2tracker') = Keys(did2tracker) \cup {calls[p].did}
              /\ Keys(statusq') = Keys(statusq) \cup {calls[p].did}
              /\ statusq'[calls[p].did] = did2tracker'[calls[p].did]
              /\ nextObj' = nextObj + 1
              /\ msgq' = msgq
        /\ calls[p].pc = "l171" =>
              /\ calls'[p].pc = "stored"
              /\ calls[p].did \in Keys(did2tracker)
              /\ did2tracker' = did2tracker
              /\ statusq' = statusq
              /\ msgq' = Append(msgq, The(calls[p].tm))
      ]_vars

\* C2: in every interleaving of on_lora_msg and getTracker calls for one device
\* no call fails on the identity-exists guard of addTracker, and a call that
\* goes on to line 171 finds the identity of its device in the registry.
C2_ConcurrentIngestionSafe ==
    \A p \in Procs :
        /\ calls[p].pc # "raised"
        /\ calls[p].pc = "l171" => calls[p].did \in Keys(did2tracker)

\* C3: no step of an on_lora_msg call ends the call with an exception.
C3_IngestNeverRaises ==
    [][\A p \in Procs : calls'[p].pc # calls[p].pc => calls'[p].pc # "raised"]_vars


\* C4: the steps of an on_lora_msg call up to the parser's answer (the only
\* steps of a call that is ignored as no uplink, or discarded on None or on a
\* parser error) change neither did2tracker nor the two write queues.
C4_NoMessageNoEffect ==
    [][\A p \in Procs :
        (calls[p].pc \in {"idle", "parse"} /\ calls'[p] # calls[p]) =>
            UNCHANGED <<did2tracker, statusq, msgq>>
      ]_vars

\* a call was ignored and a call for an unknown device was discarded, and the
\* registry and the queues are empty
C4_Witness ==
    /\ \E p, q \in Procs : calls[p].pc = "discarded" /\ calls[q].pc = "ignored"
    /\ initpc = "ready"
    /\ did2tracker = EmptyDict
    /\ statusq = EmptyDict
    /\ msgq = <<>>

\* C5: a getTracker call returns the object the first getTracker call with
\* that address returned, and the getTracker calls with one address put at most
\* one identity on the identity-write queue.
C5_GetTrackerIdempotent ==
    [][\A a \in DevEuis :
        GetTracker(a) =>
            /\ hist.first[a] # 0 => getTracker(a).tracker.obj = hist.first[a]
            /\ hist'.enq[a] <= 1
      ]_vars

\* all messages in the message-write accumulator, in a drained batch or stored
MsgsSomewhere == msgq \o msgBatch \o msgFinal \o msgTable

\* C6: every message the parser produced, once its call has ended, is exactly
\* once in the accumulator, in a drained batch or in the message table, unless
\* its batch was dropped by a storage failure.
C6_EachMessagePersistedOnce ==
    \A u \in 1..nextUpid :
        \/ InCall(u)
        \/ u \in hist.msgDropped
        \/ Cardinality({i \in 1..Len(MsgsSomewhere) : MsgsSomewhere[i].upid = u}) = 1


\* a write enqueued after shutdown was called: objects and messages are
\* numbered in the order in which they are enqueued
LateObj(o) == ShutdownCalled /\ o > hist.cutObj
LateUpid(u) == ShutdownCalled /\ u > hist.cutUpid

\* when shutdown has returned, what is pending was enqueued after its call
EarlierWritesFlushed ==
    shutpc = "done" =>
        /\ \A i \in 1..Len(msgq) : LateUpid(msgq[i].upid)
        /\ \A t \in Values(statusq) : LateObj(t.obj)

\* C7 as claimed: shutdown hands to the flush actions every write enqueued
\* before it was called, and no batch handed to a flush action holds a write
\* enqueued after it was called.
C7_ShutdownFlushesExactlyEarlierWrites ==
    /\ EarlierWritesFlushed
    /\ \A m \in SeqSet(msgBatch \o msgFinal) : ~LateUpid(m.upid)
    /\ \A t \in Values(statusBatch) \cup Values(statusFinal) : ~LateObj(t.obj)

\* C7 as amended: shutdown hands to the flush actions every write enqueued
\* before it was called, and once the stop of a task has returned that task
\* drains its accumulator no more.
C7_ShutdownFlushesEarlierWrites ==
    /\ []EarlierWritesFlushed
    /\ [][/\ task["msg"].stop = "done" =>
                /\ msgFinal' = msgFinal
                /\ msgBatch' = msgBatch \/ msgBatch' = <<>>
          /\ task["status"].stop = "done" =>
                /\ statusFinal' = statusFinal
                /\ statusBatch' = statusBatch \/ statusBatch' = EmptyDict
        ]_vars

\* shutdown has returned, a message enqueued before its call is stored, and an
\* identity and a message enqueued after its call are pending
C7_Witness ==
    /\ shutpc = "done"
    /\ \E i \in 1..Len(msgTable) : msgTable[i].upid <= hist.cutUpid
    /\ \E i \in 1..Len(msgq) : LateUpid(msgq[i].upid)
    /\ \E t \in Values(statusq) : LateObj(t.obj)

\* C8: the records of a batch whose flush failed are in no accumulator, in no
\* drained batch and not stored, and the step that ends a flush changes no
\* on_lora_msg call, no result of a client's call and no accumulator.
C8_FailedFlushDropped ==
    /\ [](/\ hist.msgDropped \cap Upids(MsgsSomewhere) = {}
          /\ hist.idDropped \cap (Objs(statusq) \cup Objs(statusBatch) \cup Objs(statusFinal)) = {})
    /\ [][\A k \in Tasks :
            (\/ task[k].loop = "flushing" /\ task'[k].loop # "flushing"
             \/ task[k].stop = "final" /\ task'[k].stop = "done") =>
                UNCHANGED <<calls, ret, msgq, statusq>>
        ]_vars

\* a message batch and an identity batch were dropped, and the call that
\* enqueued a message has returned normally
C8_Witness ==
    /\ hist.msgDropped # {}
    /\ hist.idDropped # {}
    /\ \E p \in Procs : calls[p].pc = "stored"

\* C9: addTracker for an id that is in the registry raises, called by a client
\* or by on_lora_msg, and changes neither did2tracker nor the write queues.
C9_AddExistingFailsAlone ==
    [][/\ \A a \in DevEuis, d \in ClientDids :
            (AddTracker(a, d) /\ d \in Keys(did2tracker)) =>
                /\ ret' = "AssertionError"
                /\ UNCHANGED <<did2tracker, statusq, msgq>>
       /\ \A p \in Procs :
            (calls[p].pc = "l169" /\ calls[p].t = None
                /\ calls[p].did \in Keys(did2tracker)) =>
                /\ calls'[p].pc = "raised"
                /\ UNCHANGED <<did2tracker, statusq, msgq>>
      ]_vars

\* a client's addTracker has raised and the registry holds an identity
C9_Witness ==
    /\ ret = "AssertionError"
    /\ did2tracker # EmptyDict

\* C10: every identity of did2tracker has the id it is stored under, and its
\* address decodes to that id.
C10_IdentityKeyedByItsId ==
    \A d \in Keys(did2tracker) :
        /\ did2tracker[d].did = d
        /\ str2int(did2tracker[d].deveui) = d

\* C11: no step removes an id from did2tracker: an id that is once known
\* stays known.
C11_KnownStaysKnown ==
    [][Keys(did2tracker) \subseteq Keys(did2tracker')]_vars

\* C18: whenever the identity-write task hands a drained accumulator to
\* pg_status_store_action (on a wake or on stop), every id of it is a key of
\* did2tracker, so that the lookup of line 271 does not fail.
C18_StatusFlushFindsEveryId ==
    [][(Wake("status") \/ StopFinal("status")) => ~KeyError(statusq)]_vars

\* C19: a batch that is being flushed, by the loop of a task or by its stop,
\* holds at least one record.
C19_NoFlushOfEmptyBatch ==
    /\ task["msg"].loop = "flushing" => msgBatch # <<>>
    /\ task["msg"].stop = "final" => msgFinal # <<>>
    /\ task["status"].loop = "flushing" => statusBatch # EmptyDict
    /\ task["status"].stop = "final" => statusFinal # EmptyDict

\* the ids persisted, pending in the identity-write accumulator or in a batch
\* that is being flushed
IdsOnTheWay ==
    statusTable \cup Keys(statusq) \cup Keys(statusBatch) \cup Keys(statusFinal)

\* C20: on a storage that does not fail and with the identity-write task
\* scheduled fairly, every id of did2tracker is persisted, pending in the
\* accumulator or in a batch being flushed, and is eventually in the identity
\* table.
C20_KnownIdEventuallyPersisted ==
    /\ [](Keys(did2tracker) \subseteq IdsOnTheWay)
    /\ \A d \in ClientDids : (d \in Keys(did2tracker)) ~> (d \in statusTable)

\* C16: in every state, whatever the operations that changed did2tracker,
\* getTrackers(0, n) with n the size of did2tracker or more returns a list
\* that holds the identities of exactly the ids of did2tracker, each once.
C16_ListIsTheRegistry ==
    \A n \in 0..MaxCnt, o \in Orders(Keys(did2tracker)) :
        n >= Cardinality(Keys(did2tracker)) =>
            LET l == getTrackers(0, n, o).result
            IN  /\ {l[i].did : i \in 1..Len(l)} = Keys(did2tracker)
                /\ Len(l) = Cardinality(Keys(did2tracker))

\* the rows of the storage that match a query for the ids dids in the window
Matching(arg, dids) == Where(msgTable, dids, arg.lo, arg.hi)

\* C12: a getTrackerMessages call filters the requested ids to those that are
\* keys of did2tracker when it is called; when none is, it returns {} at once,
\* without a storage call; a storage call is made for the filtered ids, and
\* the result has no id but those.
C12_QueriesKnownIdsOnly ==
    /\ [](gtm # None =>
            /\ The(gtm).known # {}
            /\ The(gtm).known \subseteq The(gtm).dids)
    /\ []((out.op = "getTrackerMessages" /\ out.res # None) =>
            LET arg == The(out.arg)
            IN  /\ Keys(The(out.res)) \subseteq arg.known
                /\ arg.known \subseteq arg.dids)
    /\ [][\A dids \in SUBSET ClientDids, w \in Windows :
            GetTrackerMessagesCall(dids, w[1], w[2]) =>
                /\ The(IF gtm' # None THEN gtm' ELSE out'.arg).known
                     = dids \cap Keys(did2tracker)
                /\ dids \cap Keys(did2tracker) = {} =>
                     /\ gtm' = None
                     /\ out'.res = Some(EmptyDict)
        ]_vars

\* a call has returned messages of a known id and none of a requested id
\* that is not in the registry, of which the storage has rows in the window
C12_Witness ==
    /\ out.op = "getTrackerMessages"
    /\ out.res # None
    /\ The(out.res) # EmptyDict
    /\ \E did \in The(out.arg).dids :
          /\ did \notin Keys(did2tracker)
          /\ did \notin Keys(The(out.res))
          /\ Matching(The(out.arg), {did}) # <<>>

RECURSIVE TotalLen(_, _)
\* the number of messages of a result d, summed over the ids S
TotalLen(d, S) ==
    IF S = {} THEN 0
    ELSE LET did == CHOOSE x \in S : TRUE
         IN  Len(d[did]) + TotalLen(d, S \ {did})

\* C13: the messages of one result of getTrackerMessages, summed over its
\* ids, are at most 8192.
C13_AtMostLimitMessages ==
    (out.op = "getTrackerMessages" /\ out.res # None) =>
        TotalLen(The(out.res), Keys(The(out.res))) <= QueryLimit

\* a call for two ids has returned 8192 messages, of both ids, and the
\* storage has more rows that match
C13_Witness ==
    /\ out.op = "getTrackerMessages"
    /\ out.res # None
    /\ Cardinality(Keys(The(out.res))) > 1
    /\ TotalLen(The(out.res), Keys(The(out.res))) = QueryLimit
    /\ Len(Matching(The(out.arg), The(out.arg).known)) > QueryLimit

\* the identities of did2tracker whose address ends with the hex digits sfx
EndingWith(sfx) ==
    {t \in Values(did2tracker) : endswith(t.deveui, reverse(s2eui(reverse(sfx))))}

\* C14 as claimed: with the identity of an address registered, searchTracker
\* returns that identity for the tagged form, for the hyphenated address and
\* for every suffix of its hex digits.
C14_SearchFindsRegistered ==
    \A h \in SearchHex :
        LET did == str2int(Hyphenated(h))
        IN  did \in Keys(did2tracker) =>
                /\ SearchResults(Tagged(h)) = {Returned(Some(did2tracker[did]))}
                /\ SearchResults(Hyphenated(h)) = {Returned(Some(did2tracker[did]))}
                /\ \A n \in SuffixLens :
                      SearchResults(Suffix(h, n)) = {Returned(Some(did2tracker[did]))}

\* C14 as amended: with the identity of an address registered, searchTracker
\* returns that identity for the tagged form and for the hyphenated address;
\* for a suffix of its hex digits it returns an identity whose address ends
\* with the suffix, which is that identity when no other address ends with it.
C14_SearchFindsRegisteredOrSameSuffix ==
    \A h \in SearchHex :
        LET did == str2int(Hyphenated(h))
        IN  did \in Keys(did2tracker) =>
                /\ SearchResults(Tagged(h)) = {Returned(Some(did2tracker[did]))}
                /\ SearchResults(Hyphenated(h)) = {Returned(Some(did2tracker[did]))}
                /\ \A n \in SuffixLens :
                      /\ SearchResults(Suffix(h, n)) \subseteq
                            {Returned(Some(t)) : t \in EndingWith(Suffix(h, n))}
                      /\ did2tracker[did] \in EndingWith(Suffix(h, n))
                      /\ EndingWith(Suffix(h, n)) = {did2tracker[did]} =>
                            SearchResults(Suffix(h, n)) = {Returned(Some(did2tracker[did]))}

\* the search for the last six digits of a registered address has returned
\* its identity, in a registry with another address of these last six digits
C14_Witness ==
    /\ out.op = "searchTracker"
    /\ \E h \in SearchHex :
          /\ The(out.arg) = Suffix(h, 6)
          /\ str2int(Hyphenated(h)) \in Keys(did2tracker)
          /\ The(out.res) = Returned(Some(did2tracker[str2int(Hyphenated(h))]))
          /\ Cardinality(EndingWith(Suffix(h, 6))) > 1

\* C15: searchTracker raises for no query.
C15_SearchNeverRaises ==
    \A q \in Queries : \A r \in SearchResults(q) : ~r.raised

\* C17: what searchTracker returns is determined by the query and the
\* identities registered: it is the same for every order in which did2tracker
\* is iterated.
C17_SearchResultDetermined ==
    \A q \in Queries : Cardinality(SearchResults(q)) = 1

====
